---- MODULE Spec2Model ----
(***************************************************************************)
(* QwtPlot::print and its region routines (qwt_plot_print.cpp) as a state  *)
(* machine.  One call of print(painter, plotRect, pfilter) is followed     *)
(* statement group by statement group; pc is the position inside print.   *)
(* The collaborators (layout engine, scale widgets, painter, filter) are   *)
(* state the routine reads and writes; every call that reaches the paint   *)
(* device or a collaborator hook is appended to log.                       *)
(*                                                                         *)
(* Coordinates are exact rationals [n, d] in lowest terms: the DPI ratio   *)
(* is a quotient of two integer DPI values and every scaled coordinate is  *)
(* an integer layout coordinate times such a ratio.                        *)
(***************************************************************************)
EXTENDS Integers, Sequences, FiniteSets, TLC

\* ---- bounds of the model -------------------------------------------------
MaxDpi == 2
MaxDist == 1
MaxLen == 3
MaxMargin == 1
MaxItems == 1

\* ---- axes and filter flags -----------------------------------------------
AxisOrder == <<"yLeft", "yRight", "xBottom", "xTop">>
axisCnt == Len(AxisOrder)
Axes == {AxisOrder[i] : i \in 1..axisCnt}
AxisIndex(a) == CHOOSE i \in 1..axisCnt : AxisOrder[i] = a
IsHorizontal(a) == a = "xTop" \/ a = "xBottom"

PrintOptions ==
    {"PrintMargin", "PrintTitle", "PrintLegend", "PrintBackground", "PrintFrameWithScales"}

\* ---- rationals -----------------------------------------------------------
RECURSIVE Gcd(_, _)
Gcd(a, b) == IF b = 0 THEN a ELSE Gcd(b, a % b)
Abs(n) == IF n < 0 THEN 0 - n ELSE n
Rat(n, d) == LET g == Gcd(Abs(n), d) IN [n |-> n \div g, d |-> d \div g]
RatInt(v) == [n |-> v, d |-> 1]
RatMul(r, s) == Rat(r.n * s.n, r.d * s.d)
RatAdd(r, s) == Rat(r.n * s.d + s.n * r.d, r.d * s.d)

\* ---- QRectF --------------------------------------------------------------
Left(r) == r.x
Right(r) == r.x + r.w
Top(r) == r.y
Bottom(r) == r.y + r.h
IsValid(r) == r.w > 0 /\ r.h > 0
IsNull(sz) == sz.w = 0 /\ sz.h = 0
RatRect(r) == [x |-> RatInt(r.x), y |-> RatInt(r.y), w |-> RatInt(r.w), h |-> RatInt(r.h)]
NoRect == [x |-> 0, y |-> 0, w |-> 0, h |-> 0]

\* ---- QTransform carrying scale factors only --------------------------------
Identity == [m11 |-> RatInt(1), m22 |-> RatInt(1)]
Scale(t, sx, sy) == [m11 |-> RatMul(t.m11, sx), m22 |-> RatMul(t.m22, sy)]
Inverted(t) == [m11 |-> Rat(t.m11.d, t.m11.n), m22 |-> Rat(t.m22.d, t.m22.n)]
IsScaling(t) == t # Identity
MapRect(t, r) ==
    [x |-> RatMul(t.m11, r.x), y |-> RatMul(t.m22, r.y),
     w |-> RatMul(t.m11, r.w), h |-> RatMul(t.m22, r.h)]

\* transform.scale(deviceDpiX / logicalDpiX, deviceDpiY / logicalDpiY)
PrintTransform(deviceDpi, plotDpi) ==
    Scale(Identity, Rat(deviceDpi[1], plotDpi[1]), Rat(deviceDpi[2], plotDpi[2]))

\* transform.inverted().mapRect(plotRect)
LayoutRect(t, plotRect) == MapRect(Inverted(t), RatRect(plotRect))

\* ---- QPainter: current state and the save stack ---------------------------
UserXf == [m11 |-> RatInt(5), m22 |-> RatInt(7)]
NewPainter ==
    [cur |-> [pen |-> [color |-> "userColor", width |-> 0], font |-> "userFont",
              brush |-> "userBrush", clipping |-> FALSE, clip |-> "none", xf |-> UserXf],
     stack |-> <<>>]
Save(g) == [g EXCEPT !.stack = Append(g.stack, g.cur)]
Restore(g) ==
    IF g.stack = <<>> THEN g
    ELSE [cur |-> g.stack[Len(g.stack)], stack |-> SubSeq(g.stack, 1, Len(g.stack) - 1)]
SetFont(g, f) == [g EXCEPT !.cur.font = f]
SetPen(g, p) == [g EXCEPT !.cur.pen = p]
SetBrush(g, b) == [g EXCEPT !.cur.brush = b]
SetClip(g, region) == [g EXCEPT !.cur.clipping = TRUE, !.cur.clip = region]
SetTransform(g, t) == [g EXCEPT !.cur.xf = t]
ResetTransform_skipped(g) == g
ResetTransform(g) == [g EXCEPT !.cur.xf = Identity]

\* one call that reaches the paint device or a collaborator
NoSd == [pos |-> [x |-> 0, y |-> 0], len |-> 0]
Ev(ev, axis, g, rect, sd) == [ev |-> ev, axis |-> axis, p |-> g.cur, rect |-> rect, sd |-> sd]

\* ---- QwtScaleDraw position and length -------------------------------------
SdMove(sd, x, y) == [sd EXCEPT !.pos = [x |-> x, y |-> y]]
SdSetLength(sd, l) == [sd EXCEPT !.len = l]

\* ---- QwtPlot::printTitle ---------------------------------------------------
printTitle(g, rect) ==
    LET g1 == SetFont(g, "titleFont")
        g2 == SetPen(g1, [color |-> "titleText", width |-> 0])
    IN  [painter |-> g2, events |-> <<Ev("title", "-", g2, rect, NoSd)>>]

\* ---- QwtPlot::printLegendItem / printLegend ---------------------------------
printLegendItem(g, rect) ==
    LET g1 == Save(g)
        idEv == Ev("legendIdentifier", "-", g1, rect, NoSd)
        g2 == Restore(g1)
        g3 == SetFont(g2, "itemFont")
    IN  [painter |-> g3, events |-> <<idEv, Ev("legendItem", "-", g3, rect, NoSd)>>]

RECURSIVE printLegendItems(_, _, _, _)
printLegendItems(g, rect, i, n) ==
    IF i > n THEN [painter |-> g, events |-> <<>>]
    ELSE LET g1 == SetClip(Save(g), "legendItem")
             it == printLegendItem(g1, rect)
             g2 == Restore(it.painter)
             rest == printLegendItems(g2, rect, i + 1, n)
         IN  [painter |-> rest.painter, events |-> it.events \o rest.events]

printLegend(g, rect, legend) ==
    IF legend.kind = "none" \/ legend.items = 0 THEN [painter |-> g, events |-> <<>>]
    ELSE IF legend.kind # "dynGrid" THEN [painter |-> g, events |-> <<>>]
    ELSE printLegendItems(g, rect, 1, legend.items)

\* ---- QwtPlot::printScale ---------------------------------------------------
\* the switch over axisId: where the scale draw is placed and how long it is
ScaleGeometry(axis, startDist, endDist, baseDist, rect) ==
    CASE axis = "yLeft" ->
            [x |-> Right(rect) - 1 - baseDist, y |-> rect.y + startDist,
             w |-> rect.h - startDist - endDist]
      [] axis = "yRight" ->
            [x |-> Left(rect) + baseDist, y |-> rect.y + startDist,
             w |-> rect.h - startDist - endDist]
      [] axis = "xTop" ->
            [x |-> Left(rect) + startDist, y |-> Bottom(rect) - baseDist,
             w |-> rect.w - startDist - endDist]
      [] axis = "xBottom" ->
            [x |-> Left(rect) + startDist, y |-> Top(rect) + baseDist,
             w |-> rect.w - startDist - endDist]

\* "reset previous values": sd->move(sdPos); sd->setLength(sdLength)
ResetScaleDraw_posOnly(sd, sdPos, sdLength) == SdMove(sd, sdPos.x, sdPos.y)
ResetScaleDraw(sd, sdPos, sdLength) == SdSetLength(SdMove(sd, sdPos.x, sdPos.y), sdLength)

\* the painter->restore() that closes printScale
LeaveScale_noRestore(g) == [g EXCEPT !.stack = SubSeq(g.stack, 1, Len(g.stack) - 1)]
LeaveScale(g) == Restore(g)

printScale(g, axis, startDist, endDist, baseDist, rect, w, sd) ==
    IF ~w.enabled THEN [painter |-> g, sd |-> sd, events |-> <<>>]
    ELSE LET hasBar == w.colorBar.enabled /\ w.colorBar.width > 0
             r == [rect EXCEPT !.w = rect.w - 1, !.h = rect.h - 1]
             barEv == IF hasBar THEN <<Ev("colorBar", axis, g, r, NoSd)>> ELSE <<>>
             off == w.colorBar.width + w.spacing
             base == IF hasBar
                     THEN (IF IsHorizontal(axis) THEN baseDist + off ELSE baseDist + off)
                     ELSE baseDist
             geo == ScaleGeometry(axis, startDist, endDist, base, rect)
             titleEv == Ev("scaleTitle", axis, g, rect, NoSd)
             g1 == SetFont(Save(g), "scaleFont")
             g2 == SetPen(g1, [g1.cur.pen EXCEPT !.width = w.penWidth])
             sdPos == sd.pos
             sdLength == sd.len
             sd1 == SdSetLength(SdMove(sd, geo.x, geo.y), geo.w)
             drawEv == Ev("scale", axis, g2, rect, sd1)
         IN  [painter |-> LeaveScale(g2),
              sd |-> ResetScaleDraw(sd1, sdPos, sdLength),
              events |-> barEv \o <<titleEv, drawEv>>]

\* ---- QwtPlot::printCanvas --------------------------------------------------
ShrinksBackground(engine) == engine # "none" /\ engine # "Raster" /\ engine # "X11"

printCanvas(g, canvasRect, options, engine) ==
    LET shrunk == [canvasRect EXCEPT !.w = RatAdd(canvasRect.w, RatInt(0 - 1)),
                                     !.h = RatAdd(canvasRect.h, RatInt(0 - 1))]
        r == IF "PrintFrameWithScales" \notin options /\ ShrinksBackground(engine)
             THEN shrunk ELSE canvasRect
        fillEv == IF "PrintBackground" \in options
                  THEN <<Ev("fillRect", "-", g, r, NoSd)>> ELSE <<>>
        f1 == SetBrush(SetPen(Save(g), [color |-> "black", width |-> 0]), "NoBrush")
        frameEv == IF "PrintFrameWithScales" \in options
                   THEN <<Ev("drawRect", "-", f1, canvasRect, NoSd)>> ELSE <<>>
        g1 == IF "PrintFrameWithScales" \in options THEN Restore(f1) ELSE g
        g2 == SetClip(g1, "canvas")
    IN  [painter |-> g2,
         events |-> fillEv \o frameEv \o <<Ev("canvas", "-", g2, canvasRect, NoSd)>>]

\* ---- QwtPlot::print: the pieces ---------------------------------------------
\* the early return
PrintReturnsEarly_sizeIgnored(c, size) ==
    c.painter = "null" \/ c.painter = "inactive" \/ ~IsValid(c.plotRect)
PrintReturnsEarly(c, size) ==
    c.painter = "null" \/ c.painter = "inactive" \/ ~IsValid(c.plotRect) \/ IsNull(size)

\* baseLineDists[axisId] = margin(); setMargin(0)
ZeroMargins(m) == [a \in Axes |-> 0]
\* setMargin(baseLineDists[axisId])
RestoreMargins_dropped(m, baseLineDists) == m
RestoreMargins(m, baseLineDists) == [a \in Axes |-> baseLineDists[a]]

LayoutOptions(options) ==
    {"IgnoreScrollbars", "IgnoreFrames"}
        \cup (IF "PrintMargin" \notin options THEN {"IgnoreMargin"} ELSE {})
        \cup (IF "PrintLegend" \notin options THEN {"IgnoreLegend"} ELSE {})

WantsTitle_always(options, titleEmpty) == ~titleEmpty
WantsTitle(options, titleEmpty) == "PrintTitle" \in options /\ ~titleEmpty
WantsLegend(options, legend) ==
    "PrintLegend" \in options /\ legend.kind # "none" /\ legend.items # 0

\* the paint interval of one axis in layout coordinates
PaintInterval_swapped(axis, enabled, sDist, eDist, scaleRect, canvasRect, margin) ==
    IF enabled
    THEN [from |-> Left(scaleRect) + sDist, to |-> Right(scaleRect) - eDist]
    ELSE IF ~IsHorizontal(axis)
         THEN [from |-> Bottom(canvasRect) - 1 - margin, to |-> Top(canvasRect) + margin]
         ELSE [from |-> Left(canvasRect) + margin, to |-> Right(canvasRect) - 1 - margin]
PaintInterval_scaleOnly(axis, enabled, sDist, eDist, scaleRect, canvasRect, margin) ==
    IF IsHorizontal(axis)
    THEN [from |-> Left(scaleRect) + sDist, to |-> Right(scaleRect) - eDist]
    ELSE [from |-> Bottom(scaleRect) - eDist, to |-> Top(scaleRect) + sDist]
PaintInterval(axis, enabled, sDist, eDist, scaleRect, canvasRect, margin) ==
    IF enabled
    THEN IF IsHorizontal(axis)
         THEN [from |-> Left(scaleRect) + sDist, to |-> Right(scaleRect) - eDist]
         ELSE [from |-> Bottom(scaleRect) - eDist, to |-> Top(scaleRect) + sDist]
    ELSE IF ~IsHorizontal(axis)
         THEN [from |-> Bottom(canvasRect) - 1 - margin, to |-> Top(canvasRect) + margin]
         ELSE [from |-> Left(canvasRect) + margin, to |-> Right(canvasRect) - 1 - margin]

\* p1 *= m11 / m22; p2 *= m11 / m22
RescaleInterval_m11(axis, m, t) ==
    [m EXCEPT !.p1 = RatMul(m.p1, t.m11), !.p2 = RatMul(m.p2, t.m11)]
RescaleInterval(axis, m, t) ==
    IF IsHorizontal(axis)
    THEN [m EXCEPT !.p1 = RatMul(m.p1, t.m11), !.p2 = RatMul(m.p2, t.m11)]
    ELSE [m EXCEPT !.p1 = RatMul(m.p1, t.m22), !.p2 = RatMul(m.p2, t.m22)]

\* the order of the statement groups of print
PcAfter_noInvalidate(p) ==
    CASE p = "idle" -> "apply"
      [] p = "apply" -> "zeroMargins"
      [] p = "zeroMargins" -> "activate"
      [] p = "activate" -> "setTransform"
      [] p = "setTransform" -> "title"
      [] p = "title" -> "legend"
      [] p = "legend" -> "scales"
      [] p = "scales" -> "maps"
      [] p = "maps" -> "rescale"
      [] p = "rescale" -> "canvas"
      [] p = "canvas" -> "restoreMargins"
      [] p = "invalidate" -> "restoreMargins"
      [] p = "restoreMargins" -> "reset"
      [] p = "reset" -> "restore"
      [] p = "restore" -> "done"
PcAfter(p) ==
    CASE p = "idle" -> "apply"
      [] p = "apply" -> "zeroMargins"
      [] p = "zeroMargins" -> "activate"
      [] p = "activate" -> "setTransform"
      [] p = "setTransform" -> "title"
      [] p = "title" -> "legend"
      [] p = "legend" -> "scales"
      [] p = "scales" -> "maps"
      [] p = "maps" -> "rescale"
      [] p = "rescale" -> "canvas"
      [] p = "canvas" -> "invalidate"
      [] p = "invalidate" -> "restoreMargins"
      [] p = "restoreMargins" -> "reset"
      [] p = "reset" -> "restore"
      [] p = "restore" -> "done"

\* ---- state -------------------------------------------------------------------
VARIABLES
    pc,         \* position inside print: "idle" before the call, "done" after it
    axisId,     \* loop index of the printScale loop (1..axisCnt)
    call,       \* the arguments: painter, its device DPI and paint engine, plotRect, filter options
    plot,       \* what print only reads of the plot: enabled axes, title, legend, size, DPI, ...
    env,        \* the rectangles and margins the layout engine computes when activated
    margin,     \* QwtScaleWidget::margin() of each axis
    scaleDraw,  \* position and length of each axis's QwtScaleDraw
    layout,     \* the layout engine: is its computation valid, for which rectangle and options
    filter,     \* has pfilter.apply() been called without its reset()
    painter,    \* the QPainter: current state and save stack
    local,      \* print's locals: transform, baseLineDists, map, canvasRect
    log,        \* the calls made on the painter and the collaborators, in order
    canvasCall, \* the rectangle and maps handed to printCanvas
    pre         \* margin, scaleDraw and painter when print was called

vars ==
    <<pc, axisId, call, plot, env, margin, scaleDraw, layout, filter, painter, local, log,
      canvasCall, pre>>

R0 == RatInt(0)
Inputs == <<call, plot, env, pre>>

\* the plot and its collaborators before the call, drawn from the sets in S
InitWith(S) ==
    /\ pc = "idle"
    /\ axisId = 1
    /\ call \in [painter : S.painters, engine : S.engines, dpi : S.deviceDpis,
                plotRect : S.rects, options : S.options]
    /\ \E en \in S.enabled, d \in S.dists, bar \in S.bars :
         plot \in [enabled : {en}, titleEmpty : S.titles, legend : S.legends, size : S.sizes,
                   dpi : S.plotDpis,
                   borderDist : {[a \in Axes |-> d]},
                   colorBar : {[a \in Axes |-> bar]},
                   spacing : {2}, penWidth : {1},
                   scaleDiv : {[a \in Axes |-> [lower |-> 0, upper |-> 10 * AxisIndex(a)]]},
                   kind : {[a \in Axes |-> IF a = "yRight" THEN "log" ELSE "linear"]}]
    /\ \E len \in S.lens :
         env = [titleRect |-> [x |-> 0, y |-> 0, w |-> 12, h |-> 1],
                legendRect |-> [x |-> 0, y |-> 9, w |-> 12, h |-> 2],
                canvasRect |-> [x |-> 3, y |-> 2, w |-> 6, h |-> 5],
                canvasMargin |-> [a \in Axes |-> AxisIndex(a) % 2],
                scaleRect |->
                    [a \in Axes |->
                        CASE a = "yLeft" -> [x |-> 0, y |-> 2, w |-> 3, h |-> len]
                          [] a = "yRight" -> [x |-> 9, y |-> 1, w |-> 3, h |-> len]
                          [] a = "xBottom" -> [x |-> 3, y |-> 7, w |-> len, h |-> 2]
                          [] a = "xTop" -> [x |-> 2, y |-> 0, w |-> len, h |-> 2]]]
    /\ \E m \in S.margins : margin = [a \in Axes |-> m + AxisIndex(a) - 1]
    /\ scaleDraw = [a \in Axes |-> [pos |-> [x |-> AxisIndex(a), y |-> 0],
                                    len |-> 100 + AxisIndex(a)]]
    /\ layout = [valid |-> FALSE, rect |-> RatRect(NoRect), options |-> {}]
    /\ filter = [applied |-> FALSE, scaling |-> FALSE]
    /\ painter = NewPainter
    /\ local = [transform |-> Identity,
                baseLineDists |-> [a \in Axes |-> 0 - 1],
                map |-> [a \in Axes |-> [kind |-> "none", s1 |-> 0, s2 |-> 0,
                                         p1 |-> R0, p2 |-> R0]],
                canvasRect |-> RatRect(NoRect)]
    /\ log = <<>>
    /\ canvasCall = [made |-> FALSE, rect |-> local.canvasRect, map |-> local.map]
    /\ pre = [margin |-> margin, scaleDraw |-> scaleDraw, painter |-> painter]

LegendKinds ==
    {[kind |-> "none", items |-> 0], [kind |-> "dynGrid", items |-> 0]}
        \cup [kind : {"dynGrid", "other"}, items : 1..MaxItems]
PlotRects == {[x |-> 0, y |-> 0, w |-> 12, h |-> 8], [x |-> 2, y |-> 2, w |-> 0, h |-> 8]}
PlotSizes == {[w |-> 0, h |-> 0], [w |-> 0, h |-> 3], [w |-> 4, h |-> 3]}
ColorBars ==
    {[enabled |-> FALSE, width |-> 2], [enabled |-> TRUE, width |-> 0],
     [enabled |-> TRUE, width |-> 2]}

\* every filter, every set of enabled axes, every kind of title and legend and
\* every degenerate argument, on one geometry
Init ==
    InitWith([options |-> SUBSET PrintOptions, enabled |-> SUBSET Axes,
              titles |-> BOOLEAN, legends |-> LegendKinds,
              painters |-> {"null", "inactive", "active"}, engines |-> {"Pdf"},
              rects |-> PlotRects, sizes |-> PlotSizes, margins |-> 1..MaxMargin,
              deviceDpis |-> {<<MaxDpi, 1>>}, plotDpis |-> {<<1, 1>>},
              lens |-> {MaxLen}, dists |-> {<<1, 0>>},
              bars |-> {[enabled |-> TRUE, width |-> 2]}])

\* every geometry: DPI ratios, scale rectangles, border distances, colour bars,
\* on valid arguments and the filter that prints everything
InitGeom ==
    InitWith([options |-> {PrintOptions}, enabled |-> SUBSET Axes,
              titles |-> {FALSE}, legends |-> {[kind |-> "dynGrid", items |-> 1]},
              painters |-> {"active"}, engines |-> {"Raster"},
              rects |-> {[x |-> 0, y |-> 0, w |-> 12, h |-> 8]},
              sizes |-> {[w |-> 4, h |-> 3]}, margins |-> {1},
              deviceDpis |-> (1..MaxDpi) \X (1..MaxDpi), plotDpis |-> {<<1, 1>>, <<2, 2>>},
              lens |-> 1..MaxLen, dists |-> (0..MaxDist) \X (0..MaxDist),
              bars |-> ColorBars])

\* ---- QwtPlot::print, statement group by statement group ------------------------
Record(events) == log' = log \o events
Mark(name) == Record(<<Ev(name, "-", painter, NoRect, NoSd)>>)

PrintEnter ==
    /\ pc = "idle"
    /\ IF PrintReturnsEarly(call, plot.size)
       THEN /\ pc' = "done"
            /\ UNCHANGED <<painter, local, log>>
       ELSE /\ local' = [local EXCEPT !.transform = PrintTransform(call.dpi, plot.dpi)]
            /\ painter' = Save(painter)
            /\ Mark("save")
            /\ pc' = PcAfter(pc)
    /\ UNCHANGED <<axisId, margin, scaleDraw, layout, filter, Inputs, canvasCall>>

FilterApply ==
    /\ pc = "apply"
    /\ filter' = [applied |-> TRUE, scaling |-> IsScaling(local.transform)]
    /\ Mark("apply")
    /\ pc' = PcAfter(pc)
    /\ UNCHANGED <<axisId, margin, scaleDraw, layout, painter, local, Inputs, canvasCall>>

SaveAndZeroMargins ==
    /\ pc = "zeroMargins"
    /\ IF "PrintFrameWithScales" \in call.options
       THEN /\ local' = [local EXCEPT !.baseLineDists = margin]
            /\ margin' = ZeroMargins(margin)
            /\ Mark("zeroMargins")
       ELSE UNCHANGED <<local, margin, log>>
    /\ pc' = PcAfter(pc)
    /\ UNCHANGED <<axisId, scaleDraw, layout, filter, painter, Inputs, canvasCall>>

ActivateLayout ==
    /\ pc = "activate"
    /\ layout' = [valid |-> TRUE, rect |-> LayoutRect(local.transform, call.plotRect),
                  options |-> LayoutOptions(call.options)]
    /\ Mark("activate")
    /\ pc' = PcAfter(pc)
    /\ UNCHANGED <<axisId, margin, scaleDraw, filter, painter, local, Inputs, canvasCall>>

SetPainterTransform ==
    /\ pc = "setTransform"
    /\ painter' = SetTransform(painter, local.transform)
    /\ Mark("setTransform")
    /\ pc' = PcAfter(pc)
    /\ UNCHANGED <<axisId, margin, scaleDraw, layout, filter, local, Inputs, canvasCall>>

PrintTitle ==
    /\ pc = "title"
    /\ IF WantsTitle(call.options, plot.titleEmpty)
       THEN LET r == printTitle(painter, env.titleRect)
            IN  painter' = r.painter /\ Record(r.events)
       ELSE UNCHANGED <<painter, log>>
    /\ pc' = PcAfter(pc)
    /\ UNCHANGED <<axisId, margin, scaleDraw, layout, filter, local, Inputs, canvasCall>>

PrintLegend ==
    /\ pc = "legend"
    /\ IF WantsLegend(call.options, plot.legend)
       THEN LET r == printLegend(painter, env.legendRect, plot.legend)
            IN  painter' = r.painter /\ Record(r.events)
       ELSE UNCHANGED <<painter, log>>
    /\ pc' = PcAfter(pc)
    /\ UNCHANGED <<axisId, margin, scaleDraw, layout, filter, local, Inputs, canvasCall>>

\* one round of the loop over the axes: printScale with the widget's margin and
\* border distance hint (getBorderDistHint is taken to return the border distances
\* the widget holds; every axis has a scale widget)
PrintScale ==
    /\ pc = "scales"
    /\ LET a == AxisOrder[axisId]
           w == [enabled |-> a \in plot.enabled, colorBar |-> plot.colorBar[a],
                 spacing |-> plot.spacing, penWidth |-> plot.penWidth]
           r == printScale(painter, a, plot.borderDist[a][1], plot.borderDist[a][2],
                           margin[a], env.scaleRect[a], w, scaleDraw[a])
       IN  /\ painter' = r.painter
           /\ scaleDraw' = [scaleDraw EXCEPT ![a] = r.sd]
           /\ Record(r.events)
    /\ IF axisId < axisCnt
       THEN axisId' = axisId + 1 /\ pc' = pc
       ELSE axisId' = 1 /\ pc' = PcAfter(pc)
    /\ UNCHANGED <<margin, layout, filter, local, Inputs, canvasCall>>

BuildMaps ==
    /\ pc = "maps"
    /\ local' = [local EXCEPT
         !.canvasRect = RatRect(env.canvasRect),
         !.map = [a \in Axes |->
                    LET iv == PaintInterval(a, a \in plot.enabled,
                                            plot.borderDist[a][1], plot.borderDist[a][2],
                                            env.scaleRect[a], env.canvasRect,
                                            env.canvasMargin[a])
                    IN  [kind |-> plot.kind[a],
                         s1 |-> plot.scaleDiv[a].lower, s2 |-> plot.scaleDiv[a].upper,
                         p1 |-> RatInt(iv.from), p2 |-> RatInt(iv.to)]]]
    /\ pc' = PcAfter(pc)
    /\ UNCHANGED <<axisId, margin, scaleDraw, layout, filter, painter, log, Inputs, canvasCall>>

ResetAndRescale ==
    /\ pc = "rescale"
    /\ painter' = ResetTransform(painter)
    /\ local' = [local EXCEPT
         !.canvasRect = MapRect(local.transform, local.canvasRect),
         !.map = [a \in Axes |-> RescaleInterval(a, local.map[a], local.transform)]]
    /\ Mark("resetTransform")
    /\ pc' = PcAfter(pc)
    /\ UNCHANGED <<axisId, margin, scaleDraw, layout, filter, Inputs, canvasCall>>

PrintCanvas ==
    /\ pc = "canvas"
    /\ LET r == printCanvas(painter, local.canvasRect, call.options, call.engine)
       IN  painter' = r.painter /\ Record(r.events)
    /\ canvasCall' = [made |-> TRUE, rect |-> local.canvasRect, map |-> local.map]
    /\ pc' = PcAfter(pc)
    /\ UNCHANGED <<axisId, margin, scaleDraw, layout, filter, local, Inputs>>

InvalidateLayout ==
    /\ pc = "invalidate"
    /\ layout' = [layout EXCEPT !.valid = FALSE]
    /\ Mark("invalidate")
    /\ pc' = PcAfter(pc)
    /\ UNCHANGED <<axisId, margin, scaleDraw, filter, painter, local, Inputs, canvasCall>>

RestoreSavedMargins ==
    /\ pc = "restoreMargins"
    /\ IF "PrintFrameWithScales" \in call.options
       THEN margin' = RestoreMargins(margin, local.baseLineDists) /\ Mark("restoreMargins")
       ELSE UNCHANGED <<margin, log>>
    /\ pc' = PcAfter(pc)
    /\ UNCHANGED <<axisId, scaleDraw, layout, filter, painter, local, Inputs, canvasCall>>

FilterReset ==
    /\ pc = "reset"
    /\ filter' = [filter EXCEPT !.applied = FALSE]
    /\ Mark("reset")
    /\ pc' = PcAfter(pc)
    /\ UNCHANGED <<axisId, margin, scaleDraw, layout, painter, local, Inputs, canvasCall>>

PainterRestore ==
    /\ pc = "restore"
    /\ painter' = Restore(painter)
    /\ log' = Append(log, Ev("restore", "-", Restore(painter), NoRect, NoSd))
    /\ pc' = PcAfter(pc)
    /\ UNCHANGED <<axisId, margin, scaleDraw, layout, filter, local, Inputs, canvasCall>>

Next ==
    \/ PrintEnter
    \/ FilterApply
    \/ SaveAndZeroMargins
    \/ ActivateLayout
    \/ SetPainterTransform
    \/ PrintTitle
    \/ PrintLegend
    \/ PrintScale
    \/ BuildMaps
    \/ ResetAndRescale
    \/ PrintCanvas
    \/ InvalidateLayout
    \/ RestoreSavedMargins
    \/ FilterReset
    \/ PainterRestore

Spec == Init /\ [][Next]_vars
SpecGeom == InitGeom /\ [][Next]_vars

\* ---- properties ----------------------------------------------------------------
Degenerate ==
    \/ call.painter = "null"
    \/ call.painter = "inactive"
    \/ call.plotRect.w <= 0
    \/ call.plotRect.h <= 0
    \/ (plot.size.w = 0 /\ plot.size.h = 0)
Returned == pc = "done"
Completed == pc = "done" /\ ~Degenerate

DrawKinds ==
    {"title", "legendIdentifier", "legendItem", "colorBar", "scaleTitle", "scale",
     "fillRect", "drawRect", "canvas"}
VectorKinds == {"title", "legendIdentifier", "legendItem", "colorBar", "scaleTitle", "scale"}
RasterKinds == {"fillRect", "drawRect", "canvas"}
Count(kind, axis) == Cardinality({i \in 1..Len(log) : log[i].ev = kind /\ log[i].axis = axis})
Drawn(kind) == \E i \in 1..Len(log) : log[i].ev = kind
Names(S) ==
    LET IsIn(e) == e.ev \in S
        sel == SelectSeq(log, IsIn)
    IN  [i \in 1..Len(sel) |-> sel[i].ev]
FactorX == Rat(call.dpi[1], plot.dpi[1])
FactorY == Rat(call.dpi[2], plot.dpi[2])
Times(v, f) == Rat(v * f.n, f.d)
Vertical == {"yLeft", "yRight"}

\* C1: a degenerate call (null or inactive painter, invalid rectangle, plot of null
\* size) makes no call on the painter or a collaborator and leaves every margin, every
\* scale draw's position and length, and the painter as they were.
C1_DegenerateIsNoOp ==
    Degenerate =>
        /\ log = <<>>
        /\ margin = pre.margin
        /\ scaleDraw = pre.scaleDraw
        /\ painter = pre.painter
        /\ ~layout.valid
C1_Witness == Returned /\ Degenerate /\ call.painter = "active" /\ IsValid(call.plotRect)

\* C2: with PrintFrameWithScales every axis margin is 0 from the layout activation to
\* the layout invalidation (while the regions are drawn), and whenever print has
\* returned every margin is what it was before the call.
C2_MarginRoundTrip ==
    /\ ("PrintFrameWithScales" \in call.options
          /\ pc \in {"activate", "setTransform", "title", "legend", "scales", "maps",
                     "rescale", "canvas", "invalidate", "restoreMargins"})
         => \A a \in Axes : margin[a] = 0
    /\ Returned => margin = pre.margin
C2_Witness ==
    /\ Completed
    /\ "PrintFrameWithScales" \in call.options
    /\ Drawn("scale")
    /\ \A a \in Axes : pre.margin[a] > 0

C4_ScaleDrawRoundTrip == scaleDraw = pre.scaleDraw
C4_Witness ==
    /\ pc = "maps"
    /\ \E i \in 1..Len(log) :
         /\ log[i].ev = "scale"
         /\ log[i].sd.pos # pre.scaleDraw[log[i].axis].pos
         /\ log[i].sd.len # pre.scaleDraw[log[i].axis].len
    /\ Drawn("colorBar")
    /\ plot.enabled # Axes

\* C5 as stated: each of printTitle, printLegend, printScale and printCanvas returns
\* with the painter's pen, font and clip as they were when it was called.
Look(g) == <<g.cur.pen, g.cur.font, g.cur.clipping, g.cur.clip>>
C5_EveryRoutineRestores ==
    [][(pc \in {"title", "legend", "scales", "canvas"})
          => (Look(painter') = Look(painter))]_vars

\* C5 amended: printLegend and printScale return with the painter as it was when they
\* were called, and so does print as a whole; printTitle and printCanvas do not.
C5_LegendScalePrintRestore ==
    [][/\ pc \in {"legend", "scales"} => painter' = painter
       /\ pc' = "done" => painter' = pre.painter]_vars
C5_Witness ==
    /\ Completed
    /\ Drawn("title")
    /\ Drawn("legendItem")
    /\ Drawn("scale")
    /\ \E i \in 1..Len(log) : log[i].ev = "scale" /\ log[i].p.pen.color = "titleText"

\* C6: the rectangle and the paint intervals handed to printCanvas are the layout
\* values times the DPI ratio: X ratio for x, width and the top and bottom axes,
\* Y ratio for y, height and the left and right axes.
C6_DpiScaleConsistency ==
    [][/\ pc = "rescale" =>
            /\ \A a \in Axes :
                 LET f == IF a \in Vertical THEN FactorY ELSE FactorX
                 IN  /\ local'.map[a].p1 = RatMul(local.map[a].p1, f)
                     /\ local'.map[a].p2 = RatMul(local.map[a].p2, f)
            /\ local'.canvasRect.x = Times(env.canvasRect.x, FactorX)
            /\ local'.canvasRect.w = Times(env.canvasRect.w, FactorX)
            /\ local'.canvasRect.y = Times(env.canvasRect.y, FactorY)
            /\ local'.canvasRect.h = Times(env.canvasRect.h, FactorY)
       /\ pc = "canvas" =>
            /\ canvasCall'.made
            /\ canvasCall'.rect = local.canvasRect
            /\ canvasCall'.map = local.map]_vars
C6_Witness ==
    /\ canvasCall.made
    /\ FactorX # FactorY
    /\ FactorX.d > 1
    /\ \A a \in Axes : canvasCall.map[a].p1.n # 0

\* C7 as stated: an enabled vertical axis has from >= to, for every scale rectangle
\* and every pair of border distances.
C7_VerticalFromBelowTo ==
    pc = "rescale" =>
        \A a \in Vertical \cap plot.enabled : local.map[a].p1.n >= local.map[a].p2.n

\* C7 amended: for an enabled vertical axis from - to is the height of the scale
\* rectangle less the two border distances, so from >= to exactly when the rectangle
\* is at least as high as the two distances together.
C7_VerticalDirection ==
    pc = "rescale" =>
        \A a \in Vertical \cap plot.enabled :
            /\ local.map[a].p1.d = 1 /\ local.map[a].p2.d = 1
            /\ local.map[a].p1.n - local.map[a].p2.n =
                 env.scaleRect[a].h - plot.borderDist[a][1] - plot.borderDist[a][2]
C7_Witness ==
    /\ pc = "rescale"
    /\ "yLeft" \in plot.enabled
    /\ plot.borderDist["yLeft"][1] + plot.borderDist["yLeft"][2] > 0
    /\ local.map["yLeft"].p1.n > local.map["yLeft"].p2.n

\* C8: the paint interval of a disabled axis comes from the canvas rectangle and
\* canvasMargin(axis) alone, that of an enabled axis from its scale rectangle and
\* border distances.
C8_IntervalSource ==
    pc = "rescale" =>
        \A a \in Axes :
            LET c == env.canvasRect
                r == env.scaleRect[a]
                m == env.canvasMargin[a]
                sDist == plot.borderDist[a][1]
                eDist == plot.borderDist[a][2]
                from == local.map[a].p1
                to == local.map[a].p2
            IN  /\ (a \notin plot.enabled /\ a \in Vertical) =>
                      from = RatInt(c.y + c.h - 1 - m) /\ to = RatInt(c.y + m)
                /\ (a \notin plot.enabled /\ a \notin Vertical) =>
                      from = RatInt(c.x + m) /\ to = RatInt(c.x + c.w - 1 - m)
                /\ (a \in plot.enabled /\ a \in Vertical) =>
                      from = RatInt(r.y + r.h - eDist) /\ to = RatInt(r.y + sDist)
                /\ (a \in plot.enabled /\ a \notin Vertical) =>
                      from = RatInt(r.x + sDist) /\ to = RatInt(r.x + r.w - eDist)
C8_Witness ==
    /\ pc = "rescale"
    /\ "yLeft" \notin plot.enabled
    /\ "xBottom" \notin plot.enabled
    /\ "yRight" \in plot.enabled
    /\ local.map["yLeft"].p1 # RatInt(Bottom(env.scaleRect["yLeft"]) - plot.borderDist["yLeft"][2])
    /\ local.map["xBottom"].p1 # RatInt(Left(env.scaleRect["xBottom"]) + plot.borderDist["xBottom"][1])

\* C9: a call that passes the preconditions does, once each and in this order: painter
\* save, filter apply, (margin zeroing,) layout activation, the region draws with the
\* canvas last, layout invalidation, (margin restore,) filter reset, painter restore;
\* at return the layout is invalid, the filter reset and the save depth as at entry.
Brackets ==
    {"save", "apply", "zeroMargins", "activate", "canvas", "invalidate", "restoreMargins",
     "reset", "restore"}
Framed == "PrintFrameWithScales" \in call.options
C9_BracketOrder ==
    Completed =>
        /\ Names(Brackets) =
             <<"save", "apply">> \o (IF Framed THEN <<"zeroMargins">> ELSE <<>>)
                \o <<"activate", "canvas", "invalidate">>
                \o (IF Framed THEN <<"restoreMargins">> ELSE <<>>)
                \o <<"reset", "restore">>
        /\ \A i, j \in 1..Len(log) :
             /\ (log[i].ev = "activate" /\ log[j].ev \in DrawKinds) => i < j
             /\ (log[i].ev \in DrawKinds /\ log[j].ev = "canvas") => i <= j
             /\ (log[i].ev \in DrawKinds /\ log[j].ev = "invalidate") => i < j
        /\ ~layout.valid
        /\ ~filter.applied
        /\ Len(painter.stack) = Len(pre.painter.stack)
C9_Witness ==
    /\ Completed
    /\ Framed
    /\ Drawn("title") /\ Drawn("legendItem") /\ Drawn("scale") /\ Drawn("fillRect")

\* C10: title, legend and scale draws are made with the painter's transform set to the
\* DPI-ratio transform, the canvas draws with the identity transform, and the layout
\* is activated, before any draw, on the print rectangle divided by the DPI ratios.
C10_TransformPerRegion ==
    /\ \A i \in 1..Len(log) :
         /\ log[i].ev \in VectorKinds =>
              log[i].p.xf = [m11 |-> FactorX, m22 |-> FactorY]
         /\ log[i].ev \in RasterKinds => log[i].p.xf = [m11 |-> RatInt(1), m22 |-> RatInt(1)]
         /\ log[i].ev \in DrawKinds => \E j \in 1..(i - 1) : log[j].ev = "activate"
    /\ Drawn("activate") =>
         /\ RatMul(layout.rect.x, FactorX) = RatInt(call.plotRect.x)
         /\ RatMul(layout.rect.w, FactorX) = RatInt(call.plotRect.w)
         /\ RatMul(layout.rect.y, FactorY) = RatInt(call.plotRect.y)
         /\ RatMul(layout.rect.h, FactorY) = RatInt(call.plotRect.h)
C10_Witness ==
    /\ Completed
    /\ FactorX # RatInt(1)
    /\ FactorY # FactorX
    /\ Drawn("title") /\ Drawn("legendItem") /\ Drawn("scale") /\ Drawn("canvas")

====
